---- MODULE Spec2Model ----
(***************************************************************************)
(* Model of the response-normalization layer of the comprehend service:    *)
(* ValidationService (src/services/validation_service.py) and the DTOs it  *)
(* builds (src/models/dto.py).                                             *)
(*                                                                         *)
(* A Python value is a pair <<tag, payload>>:                              *)
(*   <<"none", 0>>        None                                             *)
(*   <<"bool", b>>        True / False                                     *)
(*   <<"int", n>>         an int                                           *)
(*   <<"float", t>>       a finite float, t its value in tenths (37 = 3.7) *)
(*   <<"finf", 0>>        float('inf')   (json.loads of 1e999 or Infinity)  *)
(*   <<"fnan", 0>>        float('nan')                                     *)
(*   <<"str", s>>         a str                                            *)
(*   <<"list", seq>>      a list                                           *)
(*   <<"dict", f>>        a dict with string keys, f a function on them    *)
(*   <<"exc", name>>      a raised exception of class `name`               *)
(* A pydantic object is <<class name, fields>>.                            *)
(***************************************************************************)
EXTENDS Integers, Sequences, FiniteSets, TLC

VARIABLES raw, op, out, first, phase,
          heap, results,
          req, pc, file_url, response, calls, resp

valVars == <<raw, op, out, first, phase>>
heapVars == <<heap, results>>
pipeVars == <<req, pc, file_url, response, calls, resp>>
vars == <<valVars, heapVars, pipeVars>>

\* ------------------------------------------------------------------ bounds
\* Numbers of the inputs lie in -MaxNum..MaxNum (floats: the same, in tenths).
MaxNum == 20
\* Longest medication list / medicine-line list of an input.
MaxMeds == 2
\* Invocations on the one shared ValidationService, and changes that callers
\* make to the results they were given.
MaxCalls == 2
MaxWrites == 1

\* ------------------------------------------------------------ Python values
PyNone == <<"none", 0>>
PyBool(b) == <<"bool", b>>
PyInt(n) == <<"int", n>>
PyFloat(t) == <<"float", t>>
PyInf == <<"finf", 0>>
PyNaN == <<"fnan", 0>>
PyStr(s) == <<"str", s>>
PyList(s) == <<"list", s>>
PyDict(f) == <<"dict", f>>
Exc(name) == <<"exc", name>>

EmptyDict == [k \in {} |-> PyNone]

IsExc(v) == v[1] = "exc"
IsNone(v) == v[1] = "none"
IsStr(v) == v[1] = "str"
IsInt(v) == v[1] = "int"
IsBool(v) == v[1] = "bool"
IsFloat(v) == v[1] \in {"float", "finf", "fnan"}
IsList(v) == v[1] = "list"
IsDict(v) == v[1] = "dict"

\* Python truth value of v (the `if x` / `x if x else d` tests).
Truthy(v) ==
  CASE v[1] = "none" -> FALSE
    [] v[1] = "bool" -> v[2]
    [] v[1] = "int" -> v[2] # 0
    [] v[1] = "float" -> v[2] # 0
    [] v[1] \in {"finf", "fnan"} -> TRUE
    [] v[1] = "str" -> v[2] # ""
    [] v[1] = "list" -> v[2] # <<>>
    [] v[1] = "dict" -> DOMAIN v[2] # {}
    [] OTHER -> TRUE

\* ------------------------------------------------------- str() and parsing
Digits == <<"0", "1", "2", "3", "4", "5", "6", "7", "8", "9">>

RECURSIVE NatStr(_)
NatStr(n) == IF n < 10 THEN Digits[n + 1]
             ELSE NatStr(n \div 10) \o Digits[(n % 10) + 1]

IntStr(n) == IF n < 0 THEN "-" \o NatStr(0 - n) ELSE NatStr(n)

\* repr of a finite float given in tenths: 37 -> "3.7", -5 -> "-0.5".
FloatStr(t) ==
  LET a == IF t < 0 THEN 0 - t ELSE t
  IN (IF t < 0 THEN "-" ELSE "") \o NatStr(a \div 10) \o "." \o Digits[(a % 10) + 1]

\* The order in which the keys of a dict are rendered by str().
KeyOrder ==
  <<"diagnosis", "history", "name", "age", "sex", "medication", "test_suggested",
    "test_results", "medical_notes", "followUp", "medicine_name", "dosage", "days",
    "is_sos", "food", "frequency", "tapering", "comments", "supplier", "bill_number",
    "medicines", "quantity", "mrp", "buying_price", "selling_price", "expiry_date",
    "batch_number", "manufacturer", "gst_number", "address_line1", "address_line2",
    "city", "state", "phone", "email", "contact_person_name", "contact_person_phone",
    "before_breakfast", "after_breakfast", "lunch", "dinner", "od", "bid", "extra">>

RECURSIVE py_repr(_), ReprItems(_, _), ReprPairs(_, _)
\* repr(v): what str() gives for every value but a str.
py_repr(v) ==
  CASE v[1] = "none" -> "None"
    [] v[1] = "bool" -> IF v[2] THEN "True" ELSE "False"
    [] v[1] = "int" -> IntStr(v[2])
    [] v[1] = "float" -> FloatStr(v[2])
    [] v[1] = "finf" -> "inf"
    [] v[1] = "fnan" -> "nan"
    [] v[1] = "str" -> "'" \o v[2] \o "'"
    [] v[1] = "list" -> "[" \o ReprItems(v[2], 1) \o "]"
    [] v[1] = "dict" -> "{" \o ReprPairs(v[2], 1) \o "}"
    [] OTHER -> "<object>"

ReprItems(s, i) ==
  IF i > Len(s) THEN ""
  ELSE (IF i > 1 THEN ", " ELSE "") \o py_repr(s[i]) \o ReprItems(s, i + 1)

ReprPairs(f, i) ==
  IF i > Len(KeyOrder) THEN ""
  ELSE (IF KeyOrder[i] \in DOMAIN f
          THEN "'" \o KeyOrder[i] \o "': " \o py_repr(f[KeyOrder[i]]) \o "; "
          ELSE "")
       \o ReprPairs(f, i + 1)

\* str(v), as a Python str value.
py_str(v) == IF IsStr(v) THEN v ELSE PyStr(py_repr(v))

\* int(v): a bool or int as is, a float truncated toward zero, a str parsed as a
\* decimal integer; ValueError / TypeError / OverflowError otherwise.
py_int(v) ==
  CASE v[1] = "bool" -> PyInt(IF v[2] THEN 1 ELSE 0)
    [] v[1] = "int" -> v
    [] v[1] = "float" ->
         PyInt(IF v[2] < 0 THEN 0 - ((0 - v[2]) \div 10) ELSE v[2] \div 10)
    [] v[1] = "finf" -> Exc("OverflowError")
    [] v[1] = "fnan" -> Exc("ValueError")
    [] v[1] = "str" ->
         IF \E n \in (0 - MaxNum)..MaxNum : IntStr(n) = v[2]
           THEN PyInt(CHOOSE n \in (0 - MaxNum)..MaxNum : IntStr(n) = v[2])
           ELSE Exc("ValueError")
    [] OTHER -> Exc("TypeError")

\* float(v): a bool, int or float as a float, a str parsed as a decimal number
\* (an integer, a number with one decimal, "inf", "nan"); ValueError / TypeError
\* otherwise.
py_float(v) ==
  CASE v[1] = "bool" -> PyFloat(IF v[2] THEN 10 ELSE 0)
    [] v[1] = "int" -> PyFloat(10 * v[2])
    [] v[1] \in {"float", "finf", "fnan"} -> v
    [] v[1] = "str" ->
         IF \E n \in (0 - MaxNum)..MaxNum : IntStr(n) = v[2]
           THEN PyFloat(10 * (CHOOSE n \in (0 - MaxNum)..MaxNum : IntStr(n) = v[2]))
         ELSE IF \E t \in (0 - 10 * MaxNum)..(10 * MaxNum) : FloatStr(t) = v[2]
           THEN PyFloat(CHOOSE t \in (0 - 10 * MaxNum)..(10 * MaxNum) : FloatStr(t) = v[2])
         ELSE IF v[2] \in {"inf", "Infinity"} THEN PyInf
         ELSE IF v[2] \in {"nan", "NaN"} THEN PyNaN
         ELSE Exc("ValueError")
    [] OTHER -> Exc("TypeError")

\* bool(v)
py_bool(v) == PyBool(Truthy(v))

\* {**a, **b} for a dict a (given as its function) and any value b: TypeError
\* unless b is a mapping.
Merge(a, b) ==
  IF ~IsDict(b) THEN Exc("TypeError")
  ELSE PyDict([k \in (DOMAIN a) \union (DOMAIN b[2]) |->
                 IF k \in DOMAIN b[2] THEN b[2][k] ELSE a[k]])

\* d.get(k, default) for a dict d (given as its function).
Get(d, k, default) == IF k \in DOMAIN d THEN d[k] ELSE default

\* d with d[k] = v assigned.
Put(d, k, v) == [x \in (DOMAIN d) \union {k} |-> IF x = k THEN v ELSE d[x]]

\* --------------------------------------------------- canonical defaults
\* default_prescription with age left None instead of 0.
default_prescription_age_none ==
  [diagnosis |-> PyStr(""), history |-> PyStr(""), name |-> PyStr(""),
   age |-> PyNone, sex |-> PyStr(""), medication |-> PyList(<<>>),
   test_suggested |-> PyStr(""), test_results |-> PyStr(""),
   medical_notes |-> PyStr(""), followUp |-> PyNone]

default_prescription ==
  [diagnosis |-> PyStr(""), history |-> PyStr(""), name |-> PyStr(""),
   age |-> PyInt(0), sex |-> PyStr(""), medication |-> PyList(<<>>),
   test_suggested |-> PyStr(""), test_results |-> PyStr(""),
   medical_notes |-> PyStr(""), followUp |-> PyNone]

default_food ==
  [before_breakfast |-> PyBool(FALSE), after_breakfast |-> PyBool(FALSE),
   lunch |-> PyBool(FALSE), dinner |-> PyBool(FALSE)]

default_frequency ==
  [od |-> PyBool(FALSE), bid |-> PyBool(FALSE), tid |-> PyBool(FALSE),
   qid |-> PyBool(FALSE), hs |-> PyBool(FALSE), ac |-> PyBool(FALSE),
   pc |-> PyBool(FALSE), qam |-> PyBool(FALSE), qpm |-> PyBool(FALSE),
   bs |-> PyBool(FALSE), q6h |-> PyBool(FALSE), q8h |-> PyBool(FALSE),
   q12h |-> PyBool(FALSE), qod |-> PyBool(FALSE), q1w |-> PyBool(FALSE),
   q2w |-> PyBool(FALSE), q3w |-> PyBool(FALSE), q1m |-> PyBool(FALSE)]

default_medication ==
  [medicine_name |-> PyStr(""), dosage |-> PyStr(""), days |-> PyInt(0),
   is_sos |-> PyBool(FALSE), food |-> PyDict(default_food),
   frequency |-> PyDict(default_frequency), tapering |-> PyNone]

default_tapering ==
  [frequency |-> PyStr(""), days |-> PyInt(0), comments |-> PyStr("")]

\* The supplier inside default_supplier_bill: nine keys, no contact_person_phone.
default_supplier_bill ==
  [supplier |->
     PyDict([name |-> PyStr(""), gst_number |-> PyStr(""),
             address_line1 |-> PyStr(""), address_line2 |-> PyStr(""),
             city |-> PyStr(""), state |-> PyStr(""),
             contact_person_name |-> PyStr(""), phone |-> PyStr(""),
             email |-> PyStr("")]),
   bill_number |-> PyStr(""), medicines |-> PyList(<<>>)]

default_supplier_medicine ==
  [medicine_name |-> PyStr(""), dosage |-> PyStr(""), quantity |-> PyInt(0),
   mrp |-> PyFloat(0), buying_price |-> PyFloat(0), selling_price |-> PyFloat(0),
   expiry_date |-> PyStr(""), batch_number |-> PyStr(""),
   manufacturer |-> PyStr("")]

\* default_supplier with the key contact_person_phone left out, as in the
\* supplier of default_supplier_bill.
default_supplier_nine_keys ==
  [name |-> PyStr(""), gst_number |-> PyStr(""), address_line1 |-> PyStr(""),
   address_line2 |-> PyStr(""), city |-> PyStr(""), state |-> PyStr(""),
   phone |-> PyStr(""), email |-> PyStr(""), contact_person_name |-> PyStr("")]

default_supplier ==
  [name |-> PyStr(""), gst_number |-> PyStr(""), address_line1 |-> PyStr(""),
   address_line2 |-> PyStr(""), city |-> PyStr(""), state |-> PyStr(""),
   phone |-> PyStr(""), email |-> PyStr(""), contact_person_name |-> PyStr(""),
   contact_person_phone |-> PyStr("")]

\* ------------------------------------------------------ shared coercions
\* try: int(v) if v else 0   except (ValueError, TypeError): 0
\* Any other exception of int() (OverflowError) leaves the try statement.
int_or_default(v) ==
  IF ~Truthy(v) THEN PyInt(0)
  ELSE LET r == py_int(v)
       IN IF IsExc(r) /\ r[2] \in {"ValueError", "TypeError"} THEN PyInt(0) ELSE r

\* try: float(v) if v else 0.0   except (ValueError, TypeError): 0.0
float_or_default(v) ==
  IF ~Truthy(v) THEN PyFloat(0)
  ELSE LET r == py_float(v)
       IN IF IsExc(r) /\ r[2] \in {"ValueError", "TypeError"} THEN PyFloat(0) ELSE r

\* str(v) if v else ""
str_if_truthy(v) == IF Truthy(v) THEN py_str(v) ELSE PyStr("")

\* v if isinstance(v, str) else (str(v) if v is not None else "")
str_if_not_none(v) ==
  IF IsStr(v) THEN v ELSE IF IsNone(v) THEN PyStr("") ELSE py_str(v)

\* The items a `for` loop over v visits, as a sequence; TypeError when v is not
\* iterable. A dict yields its keys; a str yields one-character strs (here each
\* written "c": the loops below only pass an item on to a merge, which raises
\* TypeError for any str).
RECURSIVE KeysFrom(_, _)
KeysFrom(f, i) ==
  IF i > Len(KeyOrder) THEN <<>>
  ELSE (IF KeyOrder[i] \in DOMAIN f THEN <<PyStr(KeyOrder[i])>> ELSE <<>>)
       \o KeysFrom(f, i + 1)

Iterate(v) ==
  CASE v[1] = "list" -> v
    [] v[1] = "str" -> PyList([i \in 1..Len(v[2]) |-> PyStr("c")])
    [] v[1] = "dict" -> PyList(KeysFrom(v[2], 1))
    [] OTHER -> Exc("TypeError")

\* ------------------------------------------------------------ medication
\* One step of the tapering loop: {**default_tapering, **tap}, frequency forced
\* to "" unless it is a str.
validated_tap(tap) ==
  LET m == Merge(default_tapering, tap)
  IN IF IsExc(m) THEN m
     ELSE IF ~IsStr(m[2]["frequency"]) THEN PyDict(Put(m[2], "frequency", PyStr("")))
     ELSE m

\* The tapering branch with the emptiness test left out: an empty list stays an
\* empty list.
validated_tapering_keeps_empty(tapering_data) ==
  IF IsList(tapering_data)
    THEN IF \E i \in 1..Len(tapering_data[2]) : IsExc(validated_tap(tapering_data[2][i]))
           THEN Exc("TypeError")
           ELSE PyList([i \in 1..Len(tapering_data[2]) |->
                          validated_tap(tapering_data[2][i])])
    ELSE PyNone

\* The tapering branch: a non-empty list gives the list of its validated steps,
\* everything else None.
validated_tapering(tapering_data) ==
  IF Truthy(tapering_data) /\ IsList(tapering_data) /\ Len(tapering_data[2]) > 0
    THEN IF \E i \in 1..Len(tapering_data[2]) : IsExc(validated_tap(tapering_data[2][i]))
           THEN Exc("TypeError")
           ELSE PyList([i \in 1..Len(tapering_data[2]) |->
                          validated_tap(tapering_data[2][i])])
    ELSE PyNone

\* The try block of _validate_medication: the validated entry, or the exception
\* that leaves the block.
validate_medication_try(med_data) ==
  LET merged == Merge(default_medication, med_data)
  IN IF IsExc(merged) THEN merged
     ELSE
       LET food == Merge(default_food, Get(med_data[2], "food", PyDict(EmptyDict)))
           frequency == Merge(default_frequency,
                              Get(med_data[2], "frequency", PyDict(EmptyDict)))
           tapering == validated_tapering(Get(med_data[2], "tapering", PyNone))
           days == int_or_default(merged[2]["days"])
       IN IF IsExc(food) THEN food
          ELSE IF IsExc(frequency) THEN frequency
          ELSE IF IsExc(tapering) THEN tapering
          ELSE IF IsExc(days) THEN days
          ELSE PyDict([k \in DOMAIN merged[2] |->
                 CASE k = "food" -> food
                   [] k = "frequency" -> frequency
                   [] k = "tapering" -> tapering
                   [] k = "medicine_name" -> str_if_truthy(merged[2][k])
                   [] k = "dosage" -> str_if_truthy(merged[2][k])
                   [] k = "days" -> days
                   [] k = "is_sos" -> py_bool(merged[2][k])
                   [] OTHER -> merged[2][k]])

\* _validate_medication: any exception gives default_medication.copy().
validate_medication(med_data) ==
  LET r == validate_medication_try(med_data)
  IN IF IsExc(r) THEN PyDict(default_medication) ELSE r

\* ---------------------------------------------------------- prescription
\* The try block of validate_prescription_data.
validate_prescription_data_try(data) ==
  LET merged == Merge(default_prescription, data)
  IN IF IsExc(merged) THEN merged
     ELSE
       LET medications == Iterate(Get(data[2], "medication", PyList(<<>>)))
           age == int_or_default(merged[2]["age"])
       IN IF IsExc(medications) THEN medications
          ELSE IF IsExc(age) THEN age
          ELSE PyDict([k \in DOMAIN merged[2] |->
                 CASE k = "medication" ->
                        PyList([i \in 1..Len(medications[2]) |->
                                  validate_medication(medications[2][i])])
                   [] k = "age" -> age
                   [] k \in {"diagnosis", "history", "name", "sex", "test_suggested",
                             "test_results", "medical_notes"} ->
                        str_if_not_none(merged[2][k])
                   [] OTHER -> merged[2][k]])

\* validate_prescription_data with the try / except left out: an exception of
\* the body reaches the caller.
validate_prescription_data_uncaught(data) == validate_prescription_data_try(data)

\* validate_prescription_data: any exception gives default_prescription.copy().
validate_prescription_data(data) ==
  LET r == validate_prescription_data_try(data)
  IN IF IsExc(r) THEN PyDict(default_prescription) ELSE r

\* ------------------------------------------------------- pydantic models
\* A field value accepted for a declared type: str, int, float (an int is taken
\* as a float), Optional[str].
Conforms(v, type) ==
  CASE type = "str" -> IsStr(v)
    [] type = "int" -> IsInt(v)
    [] type = "float" -> IsFloat(v) \/ IsInt(v)
    [] type = "optstr" -> IsStr(v) \/ IsNone(v)
    [] OTHER -> FALSE

AsDeclared(v, type) == IF type = "float" /\ IsInt(v) THEN py_float(v) ELSE v

SupplierFields ==
  {"name", "gst_number", "address_line1", "address_line2", "city", "state",
   "phone", "email", "contact_person_name", "contact_person_phone"}

\* SupplierDto(**kw): name is required, the other nine fields default to None;
\* keys that are no field are ignored.
SupplierDto(kw) ==
  IF ~IsDict(kw) THEN Exc("TypeError")
  ELSE IF "name" \notin DOMAIN kw[2] THEN Exc("ValidationError")
  ELSE IF \E k \in SupplierFields \intersect DOMAIN kw[2] :
            ~Conforms(kw[2][k], IF k = "name" THEN "str" ELSE "optstr")
    THEN Exc("ValidationError")
  ELSE <<"SupplierDto", [k \in SupplierFields |-> Get(kw[2], k, PyNone)]>>

MedicineFieldType ==
  [medicine_name |-> "str", dosage |-> "str", quantity |-> "int", mrp |-> "float",
   buying_price |-> "float", selling_price |-> "float", expiry_date |-> "str",
   batch_number |-> "optstr", manufacturer |-> "optstr"]

\* BuyFromSupplierMedicineDto(**kw): batch_number and manufacturer default to
\* None, the other seven fields are required.
BuyFromSupplierMedicineDto(kw) ==
  IF ~IsDict(kw) THEN Exc("TypeError")
  ELSE IF \E k \in DOMAIN MedicineFieldType :
            /\ MedicineFieldType[k] # "optstr"
            /\ k \notin DOMAIN kw[2]
    THEN Exc("ValidationError")
  ELSE IF \E k \in (DOMAIN MedicineFieldType) \intersect (DOMAIN kw[2]) :
            ~Conforms(kw[2][k], MedicineFieldType[k])
    THEN Exc("ValidationError")
  ELSE <<"BuyFromSupplierMedicineDto",
         [k \in DOMAIN MedicineFieldType |->
            AsDeclared(Get(kw[2], k, PyNone), MedicineFieldType[k])]>>

\* SupplierBillDto(supplier=..., bill_number=..., medicines=[...])
SupplierBillDto(supplier, bill_number, medicines) ==
  IF ~IsStr(bill_number) THEN Exc("ValidationError")
  ELSE <<"SupplierBillDto",
         [supplier |-> supplier, bill_number |-> bill_number,
          medicines |-> PyList(medicines)]>>

\* create_supplier_bill_dto: the DTO of bill_data (a dict, given as its
\* function); on any exception the DTO of SupplierDto(name=""), "" and [].
create_supplier_bill_dto(bill_data) ==
  LET supplier_dto == SupplierDto(bill_data["supplier"])
      items == Iterate(bill_data["medicines"])
      fallback == SupplierBillDto(SupplierDto(PyDict([name |-> PyStr("")])),
                                  PyStr(""), <<>>)
  IN IF IsExc(supplier_dto) \/ IsExc(items) THEN fallback
     ELSE IF \E i \in 1..Len(items[2]) : IsExc(BuyFromSupplierMedicineDto(items[2][i]))
       THEN fallback
     ELSE LET dto == SupplierBillDto(
                       supplier_dto, bill_data["bill_number"],
                       [i \in 1..Len(items[2]) |-> BuyFromSupplierMedicineDto(items[2][i])])
          IN IF IsExc(dto) THEN fallback ELSE dto

\* ---------------------------------------------------------- supplier bill
\* The try block of _validate_supplier_medicine.
validate_supplier_medicine_try(med_data) ==
  LET merged == Merge(default_supplier_medicine, med_data)
  IN IF IsExc(merged) THEN merged
     ELSE
       LET quantity == int_or_default(merged[2]["quantity"])
           mrp == float_or_default(merged[2]["mrp"])
           buying_price == float_or_default(merged[2]["buying_price"])
           selling_price == float_or_default(merged[2]["selling_price"])
           \* selling_price == 0.0 and mrp > 0.0
           backfill == /\ selling_price = PyFloat(0)
                       /\ \/ mrp = PyInf
                          \/ (mrp[1] = "float" /\ mrp[2] > 0)
       IN IF IsExc(quantity) THEN quantity
          ELSE IF IsExc(mrp) THEN mrp
          ELSE IF IsExc(buying_price) THEN buying_price
          ELSE IF IsExc(selling_price) THEN selling_price
          ELSE PyDict([k \in DOMAIN merged[2] |->
                 CASE k \in {"medicine_name", "dosage", "expiry_date", "batch_number",
                             "manufacturer"} -> str_if_truthy(merged[2][k])
                   [] k = "quantity" -> quantity
                   [] k = "mrp" -> mrp
                   [] k = "buying_price" -> buying_price
                   [] k = "selling_price" -> IF backfill THEN mrp ELSE selling_price
                   [] OTHER -> merged[2][k]])

\* _validate_supplier_medicine: any exception gives the default line.
validate_supplier_medicine(med_data) ==
  LET r == validate_supplier_medicine_try(med_data)
  IN IF IsExc(r) THEN PyDict(default_supplier_medicine) ELSE r

\* _validate_supplier: merge with default_supplier, every field stringified; any
\* exception gives default_supplier.copy().
validate_supplier(supplier_data) ==
  LET merged == Merge(default_supplier, supplier_data)
  IN IF IsExc(merged) THEN PyDict(default_supplier)
     ELSE PyDict([k \in DOMAIN merged[2] |->
            IF k \in SupplierFields THEN str_if_not_none(merged[2][k])
            ELSE merged[2][k]])

\* The try block of validate_supplier_bill_data, up to the DTO's construction.
validate_supplier_bill_data_try(data) ==
  LET merged == Merge(default_supplier_bill, data)
  IN IF IsExc(merged) THEN merged
     ELSE
       LET supplier == validate_supplier(Get(data[2], "supplier", PyDict(EmptyDict)))
           medicines == Iterate(Get(data[2], "medicines", PyList(<<>>)))
       IN IF IsExc(medicines) THEN medicines
          ELSE PyDict([k \in DOMAIN merged[2] |->
                 CASE k = "supplier" -> supplier
                   [] k = "medicines" ->
                        PyList([i \in 1..Len(medicines[2]) |->
                                  validate_supplier_medicine(medicines[2][i])])
                   [] k = "bill_number" -> str_if_truthy(merged[2][k])
                   [] OTHER -> merged[2][k]])

\* validate_supplier_bill_data: the DTO of the validated data; on any exception
\* the DTO of default_supplier_bill.copy().
validate_supplier_bill_data(data) ==
  LET r == validate_supplier_bill_data_try(data)
  IN IF IsExc(r) THEN create_supplier_bill_dto(default_supplier_bill)
     ELSE create_supplier_bill_dto(r[2])

\* The mapping a DTO is read as by the caller of the service (the JSON object of
\* a response model): every declared field, None as null.
RECURSIVE AsMapping(_)
AsMapping(v) ==
  CASE v[1] \in {"SupplierBillDto", "SupplierDto", "BuyFromSupplierMedicineDto"} ->
         PyDict([k \in DOMAIN v[2] |-> AsMapping(v[2][k])])
    [] v[1] = "list" -> PyList([i \in 1..Len(v[2]) |-> AsMapping(v[2][i])])
    [] OTHER -> v

\* ------------------------------------------------------------- raw inputs
\* The parsed JSON values handed to the two operations. Absent marks a key the
\* mapping does not hold.
Absent == <<"absent", 0>>

\* The dict of the fields of f that are not Absent.
MkDict(f) == PyDict([k \in {x \in DOMAIN f : f[x] # Absent} |-> f[k]])

\* All sequences over S of length at most n.
RECURSIVE SeqsUpTo(_, _)
SeqsUpTo(S, n) ==
  IF n = 0 THEN {<<>>}
  ELSE LET shorter == SeqsUpTo(S, n - 1)
       IN shorter \union {Append(s, x) : s \in shorter, x \in S}

NonMappings ==
  {PyNone, PyInt(5), PyFloat(15), PyBool(TRUE), PyStr("ab"), PyList(<<>>),
   PyList(<<PyDict(EmptyDict)>>)}

TapSpec == PyDict([frequency |-> PyInt(5), days |-> PyStr("3"), comments |-> PyStr("taper")])
TapGood == PyDict([frequency |-> PyStr("bid"), days |-> PyInt(2), comments |-> PyStr("c")])

GoodEntry ==
  PyDict([medicine_name |-> PyStr("X"), dosage |-> PyStr("5mg"), days |-> PyInt(3),
          is_sos |-> PyBool(TRUE), food |-> PyDict([lunch |-> PyBool(TRUE)]),
          frequency |-> PyDict([bid |-> PyBool(TRUE)]),
          tapering |-> PyList(<<TapGood>>)])

\* Entries that differ from the empty entry in one field.
OneFieldEntries ==
  {PyDict([medicine_name |-> v]) : v \in {PyStr("X"), PyInt(0), PyInt(5), PyNone}}
  \union
  {PyDict([days |-> v]) :
     v \in {PyStr("abc"), PyStr("3"), PyInt(3), PyInt(-2), PyFloat(25), PyInf, PyNone}}
  \union
  {PyDict([is_sos |-> v]) : v \in {PyBool(TRUE), PyStr("no"), PyInt(1), PyNone}}
  \union
  {PyDict([food |-> v]) :
     v \in {PyInt(5), PyNone, PyDict([lunch |-> PyBool(TRUE)]),
            PyDict([lunch |-> PyStr("yes")]), PyDict([lunch |-> PyNone]),
            PyDict([lunch |-> PyBool(TRUE), dinner |-> PyBool(FALSE)]),
            PyDict([extra |-> PyBool(TRUE)])}}
  \union
  {PyDict([frequency |-> v]) :
     v \in {PyNone, PyDict([bid |-> PyBool(TRUE)]),
            PyDict([bid |-> PyBool(TRUE), od |-> PyBool(TRUE)]),
            PyDict([od |-> PyInt(1)])}}
  \union
  {PyDict([tapering |-> v]) :
     v \in {PyNone, PyList(<<>>), PyStr("abc"), PyDict(EmptyDict), PyList(<<PyInt(5)>>),
            PyList(<<TapSpec>>), PyList(<<TapGood>>), PyList(<<TapGood, TapSpec>>),
            PyList(<<PyDict(EmptyDict)>>),
            PyList(<<PyDict([frequency |-> PyNone])>>)}}

\* Entries that set several fields.
MixedEntries ==
  {GoodEntry,
   PyDict([medicine_name |-> PyStr("X"), days |-> PyStr("abc")]),
   PyDict([frequency |-> PyDict([bid |-> PyBool(TRUE)]), days |-> PyInf]),
   PyDict([frequency |-> PyDict([bid |-> PyBool(TRUE)]),
           tapering |-> PyList(<<PyInt(5)>>)]),
   PyDict([food |-> PyDict([dinner |-> PyBool(TRUE)]),
           frequency |-> PyDict([q12h |-> PyBool(TRUE), od |-> PyBool(FALSE)]),
           days |-> PyStr("3")])}

\* Values that are no mapping, in the place of an entry.
BrokenEntries == {PyInt(5), PyNone, PyStr("x"), PyList(<<>>)}

EntryPool ==
  {PyDict(EmptyDict)} \union OneFieldEntries \union MixedEntries \union BrokenEntries

\* The entries the longer lists are built from.
SiblingPool ==
  {GoodEntry, PyInt(5), PyDict([tapering |-> PyList(<<PyInt(5)>>)]),
   PyDict([medicine_name |-> PyStr("X"), days |-> PyStr("abc")]),
   PyDict([tapering |-> PyList(<<>>)])}

MedicationLists ==
  {PyList(<<e>>) : e \in EntryPool} \union {PyList(s) : s \in SeqsUpTo(SiblingPool, MaxMeds)}

AgeVals ==
  {Absent, PyNone, PyInt(0), PyInt(7), PyInt(-5), PyStr("7"), PyStr("abc"), PyStr(""),
   PyFloat(37), PyInf, PyNaN, PyBool(TRUE), PyList(<<>>)}

NameVals ==
  {Absent, PyNone, PyStr("A"), PyInt(0), PyInt(5), PyBool(FALSE), PyFloat(15),
   PyList(<<PyInt(1), PyStr("a")>>)}

MedicationVals ==
  {Absent, PyNone, PyInt(5), PyStr("ab"), PyDict([name |-> PyStr("X")]),
   PyList(<<GoodEntry>>)}

PrescriptionInputs ==
  NonMappings
  \union {MkDict([age |-> a, name |-> n, medication |-> m]) :
            a \in AgeVals, n \in NameVals, m \in MedicationVals}
  \union {MkDict([name |-> PyStr("A"), medication |-> m, followUp |-> f, extra |-> x]) :
            m \in MedicationLists, f \in {Absent, PyStr("2025-01-01")},
            x \in {Absent, PyInt(1)}}

GoodLine ==
  PyDict([medicine_name |-> PyStr("P"), dosage |-> PyStr("5mg"), quantity |-> PyInt(3),
          mrp |-> PyFloat(1200), buying_price |-> PyFloat(600),
          selling_price |-> PyFloat(800), expiry_date |-> PyStr("2026-01-01"),
          batch_number |-> PyStr("B7"), manufacturer |-> PyStr("M")])

PriceLines ==
  {MkDict([mrp |-> m, selling_price |-> sp]) :
     m \in {Absent, PyFloat(1200), PyInt(12), PyStr("12"), PyStr("abc"), PyFloat(-50),
            PyInf, PyNaN},
     sp \in {Absent, PyNone, PyFloat(800), PyInt(0), PyFloat(0), PyStr("abc"),
             PyStr("8.5"), PyFloat(-30)}}

OtherLines ==
  {PyDict([quantity |-> v]) :
     v \in {PyInt(3), PyStr("3"), PyStr("abc"), PyInt(-2), PyFloat(25), PyInf}}
  \union
  {PyDict([medicine_name |-> PyInt(0), dosage |-> PyInt(5), expiry_date |-> PyNone,
           batch_number |-> PyBool(FALSE), manufacturer |-> PyFloat(15)]),
   PyDict([quantity |-> PyInf, mrp |-> PyFloat(1200), selling_price |-> PyFloat(800)]),
   PyDict([buying_price |-> PyStr("6.5"), extra |-> PyInt(1)]),
   GoodLine, PyInt(5), PyNone}

LinePool == PriceLines \union OtherLines

LineSiblingPool ==
  {GoodLine, PyInt(5), PyDict([mrp |-> PyFloat(1200)]),
   PyDict([quantity |-> PyInf, mrp |-> PyFloat(1200)])}

MedicineLists ==
  {PyList(<<e>>) : e \in LinePool} \union {PyList(s) : s \in SeqsUpTo(LineSiblingPool, MaxMeds)}

SupplierVals ==
  {Absent, PyNone, PyInt(5), PyDict(EmptyDict), PyDict([name |-> PyStr("S")]),
   PyDict([name |-> PyInt(5), gst_number |-> PyNone]),
   PyDict([name |-> PyStr("S"), contact_person_phone |-> PyStr("99"),
           city |-> PyInt(0), extra |-> PyInt(1)])}

BillNumberVals == {Absent, PyNone, PyStr("B1"), PyStr(""), PyInt(0), PyInt(12)}

MedicinesVals == {Absent, PyNone, PyInt(3), PyStr("ab"), PyList(<<GoodLine>>)}

BillInputs ==
  NonMappings
  \union {MkDict([supplier |-> s, bill_number |-> b, medicines |-> m]) :
            s \in SupplierVals, b \in BillNumberVals, m \in MedicinesVals}
  \union {MkDict([bill_number |-> PyStr("B1"), medicines |-> m]) : m \in MedicineLists}

\* ------------------------------------------------------------ idle parts
\* The objects that the canonical defaults hold, by identity: the list
\* default_prescription["medication"] and the mappings default_medication["food"]
\* and default_medication["frequency"].
DefaultMedicationList == 1
DefaultFoodDict == 2
DefaultFrequencyDict == 3
DefaultObjects == {DefaultMedicationList, DefaultFoodDict, DefaultFrequencyDict}

\* The heap after ValidationService(): each object with the number of changes
\* that callers have made to it.
NewService ==
  /\ heap = [o \in DefaultObjects |-> 0]
  /\ results = <<>>

NoRequest == [operation |-> "none"]

NoPipeline ==
  /\ req = NoRequest
  /\ pc = "idle"
  /\ file_url = PyNone
  /\ response = PyNone
  /\ calls = <<>>
  /\ resp = PyNone

NoValidation ==
  /\ raw = PyNone
  /\ op = "none"
  /\ out = PyNone
  /\ first = PyNone
  /\ phase = "idle"

\* -------------------------------------------------------------- behaviour
\* A request arrives with its raw value; one of the two operations normalizes it;
\* the caller may pass the result in again as a raw value.
Init ==
  /\ raw \in PrescriptionInputs \union BillInputs
  /\ op = "none"
  /\ out = PyNone
  /\ first = PyNone
  /\ phase = "received"
  /\ NewService
  /\ NoPipeline

ValidatePrescription ==
  /\ phase = "received"
  /\ out' = validate_prescription_data(raw)
  /\ op' = "prescription"
  /\ phase' = "validated"
  /\ UNCHANGED <<raw, first, heapVars, pipeVars>>

ValidateSupplierBill ==
  /\ phase = "received"
  /\ out' = validate_supplier_bill_data(raw)
  /\ op' = "bill"
  /\ phase' = "validated"
  /\ UNCHANGED <<raw, first, heapVars, pipeVars>>

RevalidatePrescription ==
  /\ phase = "validated"
  /\ op = "prescription"
  /\ first' = out
  /\ out' = validate_prescription_data(out)
  /\ phase' = "revalidated"
  /\ UNCHANGED <<raw, op, heapVars, pipeVars>>

RevalidateSupplierBill ==
  /\ phase = "validated"
  /\ op = "bill"
  /\ first' = out
  /\ out' = validate_supplier_bill_data(AsMapping(out))
  /\ phase' = "revalidated"
  /\ UNCHANGED <<raw, op, heapVars, pipeVars>>

Next ==
  \/ ValidatePrescription
  \/ ValidateSupplierBill
  \/ RevalidatePrescription
  \/ RevalidateSupplierBill

Spec == Init /\ [][Next]_vars

\* ------------------------------------------------------- object identity
\* Inputs of the invocations on the shared service.
HeapInputs ==
  {PyNone,
   PyDict(EmptyDict),
   MkDict([age |-> PyInf]),
   MkDict([medication |-> PyList(<<PyDict(EmptyDict)>>)]),
   MkDict([medication |-> PyList(<<PyNone>>)]),
   MkDict([medication |-> PyList(<<PyDict(EmptyDict), MkDict([days |-> PyInf])>>)])}

\* The lists and nested mappings inside the record that
\* validate_prescription_data(data) returns, by identity, with new objects
\* numbered from base + 1. The try block builds validated_medications = [] and,
\* per entry, new food and frequency mappings; the fallback of an entry is
\* default_medication.copy() and the fallback of the record is
\* default_prescription.copy(), both shallow.
PrescriptionObjects(data, base) ==
  IF IsExc(validate_prescription_data_try(data))
    THEN [op |-> "prescription", fallback |-> TRUE,
          refs |-> {DefaultMedicationList}, allocated |-> 0]
  ELSE LET meds == Iterate(Get(data[2], "medication", PyList(<<>>)))[2]
           entry(i) ==
             IF IsExc(validate_medication_try(meds[i]))
               THEN {DefaultFoodDict, DefaultFrequencyDict}
               ELSE {base + 2 * i, base + 2 * i + 1}
       IN [op |-> "prescription", fallback |-> FALSE,
           refs |-> {base + 1} \union UNION {entry(i) : i \in 1..Len(meds)},
           allocated |-> 1 + 2 * Len(meds)]

\* The same for validate_supplier_bill_data(data): create_supplier_bill_dto
\* builds a new SupplierDto and a new medicines list on both paths.
BillObjects(data, base) ==
  [op |-> "bill", fallback |-> IsExc(validate_supplier_bill_data_try(data)),
   refs |-> {base + 1, base + 2}, allocated |-> 2]

Allocate(r) ==
  LET n == Cardinality(DOMAIN heap)
  IN /\ heap' = [o \in 1..(n + r.allocated) |-> IF o \in DOMAIN heap THEN heap[o] ELSE 0]
     /\ results' = Append(results, r)

InvokePrescription ==
  /\ Len(results) < MaxCalls
  /\ \E data \in HeapInputs :
       Allocate(PrescriptionObjects(data, Cardinality(DOMAIN heap)))
  /\ UNCHANGED <<valVars, pipeVars>>

InvokeSupplierBill ==
  /\ Len(results) < MaxCalls
  /\ \E data \in {PyNone, PyDict(EmptyDict)} :
       Allocate(BillObjects(data, Cardinality(DOMAIN heap)))
  /\ UNCHANGED <<valVars, pipeVars>>

\* Number of changes made so far.
RECURSIVE Changes(_)
Changes(n) == IF n = 0 THEN 0 ELSE heap[n] + Changes(n - 1)

\* The holder of a result changes a list or nested mapping inside it (appends
\* to medication, sets a food flag, ...).
ChangeResult ==
  /\ Changes(Cardinality(DOMAIN heap)) < MaxWrites
  /\ \E i \in 1..Len(results) : \E o \in results[i].refs :
       heap' = [heap EXCEPT ![o] = @ + 1]
  /\ UNCHANGED <<results, valVars, pipeVars>>

InitHeap ==
  /\ NoValidation
  /\ NewService
  /\ NoPipeline

NextHeap ==
  \/ InvokePrescription
  \/ InvokeSupplierBill
  \/ ChangeResult

SpecHeap == InitHeap /\ [][NextHeap]_vars

\* ----------------------------------------------------------------- pipeline
\* A MIME type is <<type, subtype>>, written type/subtype.
MimeTypes ==
  {<<"image", "png">>, <<"application", "pdf">>, <<"application", "json">>,
   <<"audio", "mpeg">>, <<"text", "plain">>}

\* mimetype.startswith(prefix + "/")
startswith(mimetype, prefix) == mimetype[1] = prefix

MimeStr(mimetype) == PyStr(mimetype[1] \o "/" \o mimetype[2])

\* The file of a request: bytes, a str that is base64, or a str that is not.
FileData == {"bytes", "base64", "not_base64"}

Requests ==
  [operation : {"prescription", "bill"}, mimetype : MimeTypes, data : FileData]

\* A raised exception, as the handler reads it: type(e).__name__ and str(e).
Raised(type, message) == [type |-> type, message |-> message]

\* base64.b64decode(base64_data), taken only when the data is a str.
b64decode(data) ==
  IF data = "not_base64" THEN Exc("Error") ELSE <<"bytes", 0>>

\* What FirebaseService.upload_file can return; it raises nothing.
UploadResults ==
  {[success |-> TRUE, url |-> PyStr("https://storage.googleapis.com/b/rx")],
   [success |-> FALSE, error |-> PyStr("Upload failed: 403"),
    details |-> PyStr("Firebase upload failed")]}

\* Texts that the model can return: a body, bare or inside a json code fence.
AiBodies ==
  {"{}", "null", "[]", "{\"age\": \"7\"}", "{\"age\": 1e999}",
   "I cannot read this file", ""}

AiTexts == [fenced : BOOLEAN, body : AiBodies]

\* The text with the fence markers replaced by "" and the result stripped.
json_string(text) == text.body

\* json.loads on these texts.
json_loads(text) ==
  CASE text = "{}" -> PyDict(EmptyDict)
    [] text = "null" -> PyNone
    [] text = "[]" -> PyList(<<>>)
    [] text = "{\"age\": \"7\"}" -> MkDict([age |-> PyStr("7")])
    [] text = "{\"age\": 1e999}" -> MkDict([age |-> PyInf])
    [] OTHER -> Exc("JSONDecodeError")

\* The response models; processing_time, a clock reading, is left out.
ErrorDetails(message, type, context) ==
  <<"ErrorDetails",
    [message |-> PyStr(message), type |-> PyStr(type), context |-> PyDict(context)]>>

AIProcessingResult(validated_data, url, is_handwritten_rx, is_voice_rx) ==
  IF ~IsDict(validated_data) \/ ~IsStr(url) THEN Exc("ValidationError")
  ELSE <<"AIProcessingResult",
         [validated_data |-> validated_data, file_url |-> url,
          is_handwritten_rx |-> PyBool(is_handwritten_rx),
          is_voice_rx |-> PyBool(is_voice_rx)]>>

ComprehendResponse(success, ai_result, error) ==
  <<"ComprehendResponse",
    [success |-> PyBool(success), ai_result |-> ai_result, error |-> error]>>

BillResponse(success, bill_result, error) ==
  <<"BillResponse",
    [success |-> PyBool(success), bill_result |-> bill_result, error |-> error]>>

\* process_prescription_ai with its except clause left out: the exception
\* reaches the caller.
ComprehendFailure_reraised(request, e, url) == Exc(e.type)

\* except Exception as e, in process_prescription_ai.
ComprehendFailure(request, e, url) ==
  ComprehendResponse(FALSE, PyNone,
    ErrorDetails(e.message, e.type,
      [doctor_id |-> PyStr("d1"), patient_id |-> PyStr("p1"),
       file_name |-> PyStr("rx"), mimetype |-> MimeStr(request.mimetype),
       file_url |-> url]))

\* if not upload_result["success"]: return ...
UploadFailure(request, upload_result) ==
  ComprehendResponse(FALSE, PyNone,
    ErrorDetails("Firebase upload failed: " \o upload_result.error[2],
      "FirebaseUploadError",
      [doctor_id |-> PyStr("d1"), patient_id |-> PyStr("p1"),
       file_name |-> PyStr("rx"), mimetype |-> MimeStr(request.mimetype),
       firebase_details |-> upload_result.details]))

\* except Exception as e, in process_bill_ai.
BillFailure(request, e) ==
  BillResponse(FALSE, PyNone,
    ErrorDetails(e.message, e.type,
      [doctor_id |-> PyStr("d1"), clinic_id |-> PyInt(1),
       file_name |-> PyStr("supplier_bill.jpg"),
       mimetype |-> MimeStr(request.mimetype)]))

\* An external call and how it ended.
Called(call, ok, url) == [call |-> call, ok |-> ok, url |-> url]

\* The operation ends with the response r.
Return(r) ==
  /\ resp' = r
  /\ pc' = "returned"

\* ---- process_prescription_ai
DecodeFile ==
  /\ pc = "start"
  /\ req.operation = "prescription"
  /\ IF req.data # "bytes" /\ IsExc(b64decode(req.data))
       THEN Return(ComprehendFailure(req,
                     Raised(b64decode(req.data)[2], "Incorrect padding"), file_url))
       ELSE pc' = "decoded" /\ UNCHANGED resp
  /\ UNCHANGED <<req, file_url, response, calls, valVars, heapVars>>

is_handwritten_rx(mimetype) ==
  startswith(mimetype, "image") \/ mimetype = <<"application", "pdf">>

is_voice_rx(mimetype) ==
  ~is_handwritten_rx(mimetype) /\ startswith(mimetype, "audio")

CheckFileType ==
  /\ pc = "decoded"
  /\ req.operation = "prescription"
  /\ IF is_handwritten_rx(req.mimetype) \/ is_voice_rx(req.mimetype)
       THEN pc' = "typed" /\ UNCHANGED resp
       ELSE Return(ComprehendFailure(req, Raised("ValueError", "Unsupported file type"),
                                     file_url))
  /\ UNCHANGED <<req, file_url, response, calls, valVars, heapVars>>

\* The upload with the success of upload_result not looked at.
UploadFile_unchecked ==
  /\ pc = "typed"
  /\ req.operation = "prescription"
  /\ \E upload_result \in UploadResults :
       /\ calls' = Append(calls, Called("upload", upload_result.success,
                                        IF upload_result.success THEN upload_result.url
                                        ELSE PyNone))
       /\ file_url' = (IF upload_result.success THEN upload_result.url ELSE PyNone)
       /\ pc' = "uploaded"
       /\ UNCHANGED resp
  /\ UNCHANGED <<req, response, valVars, heapVars>>

UploadFile ==
  /\ pc = "typed"
  /\ req.operation = "prescription"
  /\ \E upload_result \in UploadResults :
       /\ calls' = Append(calls, Called("upload", upload_result.success,
                                        IF upload_result.success THEN upload_result.url
                                        ELSE PyNone))
       /\ IF ~upload_result.success
            THEN Return(UploadFailure(req, upload_result)) /\ UNCHANGED file_url
            ELSE /\ file_url' = upload_result.url
                 /\ pc' = "uploaded"
                 /\ UNCHANGED resp
  /\ UNCHANGED <<req, response, valVars, heapVars>>

GenerateContent ==
  /\ pc = "uploaded"
  /\ req.operation = "prescription"
  /\ \/ /\ calls' = Append(calls, Called("ai", FALSE, PyNone))
        /\ Return(ComprehendFailure(req, Raised("ResourceExhausted", "429 quota"),
                                    file_url))
        /\ UNCHANGED response
     \/ \E text \in AiTexts :
          /\ calls' = Append(calls, Called("ai", TRUE, PyNone))
          /\ response' = PyStr(text)
          /\ pc' = "generated"
          /\ UNCHANGED resp
  /\ UNCHANGED <<req, file_url, valVars, heapVars>>

ParseJson ==
  /\ pc = "generated"
  /\ req.operation = "prescription"
  /\ LET parsed_json == json_loads(json_string(response[2]))
     IN IF IsExc(parsed_json)
          THEN /\ Return(ComprehendFailure(req,
                           Raised(parsed_json[2], "Expecting value"), file_url))
               /\ UNCHANGED raw
          ELSE /\ raw' = parsed_json
               /\ pc' = "parsed"
               /\ UNCHANGED resp
  /\ UNCHANGED <<req, file_url, response, calls, op, out, first, phase, heapVars>>

ValidateData ==
  /\ pc = "parsed"
  /\ req.operation = "prescription"
  /\ calls' = Append(calls, Called("normalizer", TRUE, PyNone))
  /\ out' = validate_prescription_data(raw)
  /\ pc' = "validated"
  /\ UNCHANGED <<req, file_url, response, resp, raw, op, first, phase, heapVars>>

ReturnResult ==
  /\ pc = "validated"
  /\ req.operation = "prescription"
  /\ LET ai_result == AIProcessingResult(out, file_url,
                                         is_handwritten_rx(req.mimetype),
                                         is_voice_rx(req.mimetype))
     IN IF IsExc(ai_result)
          THEN Return(ComprehendFailure(req,
                        Raised(ai_result[2], "validation error"), file_url))
          ELSE Return(ComprehendResponse(TRUE, ai_result, PyNone))
  /\ UNCHANGED <<req, file_url, response, calls, valVars, heapVars>>

\* ---- process_bill_ai
BillDecodeFile ==
  /\ pc = "start"
  /\ req.operation = "bill"
  /\ IF req.data # "bytes" /\ IsExc(b64decode(req.data))
       THEN Return(BillFailure(req, Raised(b64decode(req.data)[2], "Incorrect padding")))
       ELSE pc' = "decoded" /\ UNCHANGED resp
  /\ UNCHANGED <<req, file_url, response, calls, valVars, heapVars>>

BillCheckFileType ==
  /\ pc = "decoded"
  /\ req.operation = "bill"
  /\ IF ~startswith(req.mimetype, "image")
       THEN Return(BillFailure(req,
              Raised("ValueError", "Unsupported file type for supplier bill processing")))
       ELSE pc' = "typed" /\ UNCHANGED resp
  /\ UNCHANGED <<req, file_url, response, calls, valVars, heapVars>>

BillGenerateContent ==
  /\ pc = "typed"
  /\ req.operation = "bill"
  /\ \/ /\ calls' = Append(calls, Called("ai", FALSE, PyNone))
        /\ Return(BillFailure(req, Raised("ResourceExhausted", "429 quota")))
        /\ UNCHANGED response
     \/ \E text \in AiTexts :
          /\ calls' = Append(calls, Called("ai", TRUE, PyNone))
          /\ response' = PyStr(text)
          /\ pc' = "generated"
          /\ UNCHANGED resp
  /\ UNCHANGED <<req, file_url, valVars, heapVars>>

BillParseJson ==
  /\ pc = "generated"
  /\ req.operation = "bill"
  /\ LET parsed_json == json_loads(json_string(response[2]))
     IN IF IsExc(parsed_json)
          THEN /\ Return(BillFailure(req, Raised(parsed_json[2], "Expecting value")))
               /\ UNCHANGED raw
          ELSE /\ raw' = parsed_json
               /\ pc' = "parsed"
               /\ UNCHANGED resp
  /\ UNCHANGED <<req, file_url, response, calls, op, out, first, phase, heapVars>>

BillValidateData ==
  /\ pc = "parsed"
  /\ req.operation = "bill"
  /\ calls' = Append(calls, Called("normalizer", TRUE, PyNone))
  /\ out' = validate_supplier_bill_data(raw)
  /\ pc' = "validated"
  /\ UNCHANGED <<req, file_url, response, resp, raw, op, first, phase, heapVars>>

BillReturnResult ==
  /\ pc = "validated"
  /\ req.operation = "bill"
  /\ Return(BillResponse(TRUE, out, PyNone))
  /\ UNCHANGED <<req, file_url, response, calls, valVars, heapVars>>

InitPipeline ==
  /\ NoValidation
  /\ NewService
  /\ req \in Requests
  /\ pc = "start"
  /\ file_url = PyNone
  /\ response = PyNone
  /\ calls = <<>>
  /\ resp = PyNone

NextPipeline ==
  \/ DecodeFile
  \/ CheckFileType
  \/ UploadFile
  \/ GenerateContent
  \/ ParseJson
  \/ ValidateData
  \/ ReturnResult
  \/ BillDecodeFile
  \/ BillCheckFileType
  \/ BillGenerateContent
  \/ BillParseJson
  \/ BillValidateData
  \/ BillReturnResult

SpecPipeline == InitPipeline /\ [][NextPipeline]_vars

\* ------------------------------------------------------ reading a state
FoodFlags == DOMAIN default_food
FrequencyFlags == DOMAIN default_frequency
TopStrings ==
  {"diagnosis", "history", "name", "sex", "test_suggested", "test_results",
   "medical_notes"}

\* The first result of validate_prescription_data / validate_supplier_bill_data
\* for raw is in out.
PrescriptionDone == phase = "validated" /\ op = "prescription"
BillDone == phase = "validated" /\ op = "bill"

\* raw is a mapping whose medication / medicines is a list.
HasRawList(key) == IsDict(raw) /\ key \in DOMAIN raw[2] /\ IsList(raw[2][key])
RawMeds == raw[2]["medication"][2]
OutMeds == out[2]["medication"][2]
RawLines == raw[2]["medicines"][2]
OutLines == out[2]["medicines"][2]

\* The whole-record fallback was taken for raw.
PrescriptionFellBack == IsExc(validate_prescription_data_try(raw))
BillFellBack == IsExc(validate_supplier_bill_data_try(raw))

\* The shape of a medication entry: a mapping with the seven fields, food and
\* frequency mappings with all their flags, tapering None or a list of mappings
\* with the three fields of a step.
MedicationShaped(e) ==
  /\ IsDict(e)
  /\ DOMAIN default_medication \subseteq DOMAIN e[2]
  /\ IsDict(e[2].food) /\ FoodFlags \subseteq DOMAIN e[2].food[2]
  /\ IsDict(e[2].frequency) /\ FrequencyFlags \subseteq DOMAIN e[2].frequency[2]
  /\ \/ IsNone(e[2].tapering)
     \/ /\ IsList(e[2].tapering)
        /\ \A i \in 1..Len(e[2].tapering[2]) :
             /\ IsDict(e[2].tapering[2][i])
             /\ DOMAIN default_tapering \subseteq DOMAIN e[2].tapering[2][i][2]

PrescriptionShaped(v) ==
  /\ IsDict(v)
  /\ DOMAIN default_prescription \subseteq DOMAIN v[2]
  /\ IsList(v[2].medication)
  /\ \A i \in 1..Len(v[2].medication[2]) : MedicationShaped(v[2].medication[2][i])

BillShaped(v) ==
  /\ v[1] = "SupplierBillDto"
  /\ DOMAIN v[2] = {"supplier", "bill_number", "medicines"}
  /\ IsStr(v[2].bill_number)
  /\ v[2].supplier[1] = "SupplierDto"
  /\ DOMAIN v[2].supplier[2] = SupplierFields
  /\ \A k \in SupplierFields : IsStr(v[2].supplier[2][k]) \/ IsNone(v[2].supplier[2][k])
  /\ IsList(v[2].medicines)
  /\ \A i \in 1..Len(v[2].medicines[2]) :
       LET m == v[2].medicines[2][i]
       IN /\ m[1] = "BuyFromSupplierMedicineDto"
          /\ DOMAIN m[2] = DOMAIN MedicineFieldType
          /\ \A k \in DOMAIN m[2] : Conforms(m[2][k], MedicineFieldType[k])

\* ------------------------------------------------------------------ claims

\* C1 (totality): for a raw value of any runtime shape (mapping, list, primitive,
\* None), and for a result passed in again, validate_prescription_data returns a
\* mapping with every field of the prescription schema, its medication a list of
\* entries each with all fields, flags and tapering steps of the schema, and
\* validate_supplier_bill_data returns a SupplierBillDto whose every field
\* conforms to its declaration; no exception leaves either operation.
C1_Totality ==
  /\ (phase # "received" /\ op = "prescription") => (~IsExc(out) /\ PrescriptionShaped(out))
  /\ (phase # "received" /\ op = "bill") => (~IsExc(out) /\ BillShaped(out))

\* C1 witness: a raw value that is no mapping has been normalized by
\* validate_prescription_data, to the default record.
C1_Witness ==
  /\ PrescriptionDone
  /\ raw = PyList(<<PyDict(EmptyDict)>>)
  /\ out = PyDict(default_prescription)

\* C2 (output types), as claimed: for a mapping raw, the top-level strings are
\* strs, age an int, medication a list, and in every entry medicine_name and
\* dosage are strs, days an int, is_sos a bool, and each of the 4 food flags and
\* 18 frequency flags a bool that is True only if the raw entry set it to True.
C2_OutputTypes ==
  (PrescriptionDone /\ IsDict(raw)) =>
    /\ \A k \in TopStrings : IsStr(out[2][k])
    /\ IsInt(out[2].age)
    /\ IsList(out[2].medication)
    /\ \A i \in 1..Len(OutMeds) :
         LET e == OutMeds[i][2]
             r == IF HasRawList("medication") /\ Len(RawMeds) = Len(OutMeds)
                    /\ IsDict(RawMeds[i])
                  THEN RawMeds[i][2] ELSE EmptyDict
             SetTrue(obj, f) ==
               /\ obj \in DOMAIN r
               /\ IsDict(r[obj])
               /\ f \in DOMAIN r[obj][2]
               /\ r[obj][2][f] = PyBool(TRUE)
         IN /\ IsStr(e.medicine_name) /\ IsStr(e.dosage) /\ IsInt(e.days)
            /\ IsBool(e.is_sos)
            /\ \A f \in FoodFlags :
                 /\ IsBool(e.food[2][f])
                 /\ e.food[2][f] = PyBool(TRUE) => SetTrue("food", f)
            /\ \A f \in FrequencyFlags :
                 /\ IsBool(e.frequency[2][f])
                 /\ e.frequency[2][f] = PyBool(TRUE) => SetTrue("frequency", f)

\* C3 (supplier-bill failure policy), as claimed: when the normalization of a
\* supplier bill fails as a whole, every one of the ten supplier fields of the
\* result is "", bill_number is "" and there is no medicine line.
C3_BillFallbackAllDefaults ==
  (BillDone /\ BillFellBack) =>
    /\ \A k \in SupplierFields : out[2].supplier[2][k] = PyStr("")
    /\ out[2].bill_number = PyStr("")
    /\ OutLines = <<>>

\* C4 (tapering-step coercion), as claimed: for an entry whose raw tapering is a
\* non-empty list of mappings, each output step has the raw frequency when that is
\* a str and "" otherwise, days an int (int of the raw days, 0 when missing) and
\* comments a str.
C4_TaperingStepCoercion ==
  (PrescriptionDone /\ HasRawList("medication") /\ Len(OutMeds) = Len(RawMeds)) =>
    \A i \in 1..Len(RawMeds) :
      LET r == RawMeds[i]
          steps == r[2].tapering[2]
          got == OutMeds[i][2].tapering
      IN (/\ IsDict(r)
          /\ "tapering" \in DOMAIN r[2]
          /\ IsList(r[2].tapering)
          /\ steps # <<>>
          /\ \A j \in 1..Len(steps) : IsDict(steps[j])
          /\ IsList(got))
         => /\ Len(got[2]) = Len(steps)
            /\ \A j \in 1..Len(steps) :
                 LET frequency == Get(steps[j][2], "frequency", PyStr(""))
                 IN /\ got[2][j][2].frequency =
                         (IF IsStr(frequency) THEN frequency ELSE PyStr(""))
                    /\ got[2][j][2].days =
                         int_or_default(Get(steps[j][2], "days", PyInt(0)))
                    /\ IsStr(got[2][j][2].comments)

\* C5 (entry-level isolation), as claimed: for a mapping raw whose medication is
\* a list of n entries, the output medication list has n entries, and entry i is
\* what the entry rule gives for raw entry i: the default entry when its
\* processing fails, the validated entry otherwise.
C5_EntryIsolation ==
  (PrescriptionDone /\ HasRawList("medication")) =>
    /\ Len(OutMeds) = Len(RawMeds)
    /\ \A i \in 1..Len(RawMeds) :
         OutMeds[i] = (IF IsExc(validate_medication_try(RawMeds[i]))
                         THEN PyDict(default_medication)
                         ELSE validate_medication_try(RawMeds[i]))

\* C6 (per-field recovery at the top level), as claimed: for a mapping raw whose
\* medication / medicines value is not a list (None, a number, ...), the name of
\* the prescription and the bill_number of the bill still carry their own
\* normalized raw value: the record is not turned into the all-defaults record.
C6_TopLevelFieldRecovery ==
  /\ (/\ PrescriptionDone /\ IsDict(raw)
      /\ "medication" \in DOMAIN raw[2] /\ ~IsList(raw[2].medication)
      /\ "age" \notin DOMAIN raw[2])
       => out[2].name = str_if_not_none(Get(raw[2], "name", PyStr("")))
  /\ (/\ BillDone /\ IsDict(raw)
      /\ "medicines" \in DOMAIN raw[2] /\ ~IsList(raw[2].medicines))
       => out[2].bill_number = str_if_truthy(Get(raw[2], "bill_number", PyStr("")))

\* C7 (idempotence), as claimed: a result passed in again as the raw value comes
\* back identical, for both operations and for every first input.
C7_Idempotent == phase = "revalidated" => out = first

\* C8 (selling-price backfill), as claimed: for every raw medicine line, when the
\* line holds no selling_price and the output mrp is positive the output
\* selling_price is the mrp, and when the line holds a number as selling_price
\* the output selling_price is that number.
C8_SellingPriceBackfill ==
  (BillDone /\ HasRawList("medicines") /\ Len(OutLines) = Len(RawLines)) =>
    \A i \in 1..Len(RawLines) :
      IsDict(RawLines[i]) =>
        LET r == RawLines[i][2]
            m == OutLines[i][2]
        IN /\ ("selling_price" \notin DOMAIN r
               /\ (m.mrp = PyInf \/ (m.mrp[1] = "float" /\ m.mrp[2] > 0)))
                 => m.selling_price = m.mrp
           /\ ("selling_price" \in DOMAIN r
               /\ (IsInt(r.selling_price) \/ IsFloat(r.selling_price)))
                 => m.selling_price = py_float(r.selling_price)

\* C9 (tapering collapse): in every medication entry of a returned prescription
\* tapering is None or a non-empty list, and a raw entry whose tapering is
\* absent, None or the empty list is normalized to an entry whose tapering is
\* None.
C9_TaperingCollapse ==
  /\ (phase # "received" /\ op = "prescription") =>
       \A i \in 1..Len(OutMeds) :
         \/ IsNone(OutMeds[i][2].tapering)
         \/ (IsList(OutMeds[i][2].tapering) /\ Len(OutMeds[i][2].tapering[2]) > 0)
  /\ (PrescriptionDone /\ HasRawList("medication") /\ Len(OutMeds) = Len(RawMeds)) =>
       \A i \in 1..Len(RawMeds) :
         (/\ IsDict(RawMeds[i])
          /\ Get(RawMeds[i][2], "tapering", PyNone) \in {PyNone, PyList(<<>>)})
           => IsNone(OutMeds[i][2].tapering)

\* C9 witness: an entry whose raw tapering is the empty list has been normalized,
\* beside an entry that keeps a non-empty tapering list.
C9_Witness ==
  /\ PrescriptionDone
  /\ HasRawList("medication")
  /\ Len(OutMeds) = Len(RawMeds)
  /\ \E i \in 1..Len(RawMeds) :
       /\ IsDict(RawMeds[i])
       /\ Get(RawMeds[i][2], "tapering", PyNone) = PyList(<<>>)
       /\ IsNone(OutMeds[i][2].tapering)
  /\ \E i \in 1..Len(RawMeds) :
       IsList(OutMeds[i][2].tapering) /\ Len(OutMeds[i][2].tapering[2]) > 0

\* C10 (partial-merge correctness), as claimed: for every raw entry that holds no
\* tapering and whose food and frequency objects, where present, hold only bool
\* flags, the output entry has all 4 food flags and all 18 frequency flags, True
\* exactly for the flags the raw object sets to True and False for every other.
C10_PartialMerge ==
  (PrescriptionDone /\ HasRawList("medication")) =>
    \A i \in 1..Len(RawMeds) :
      LET r == RawMeds[i]
          OnlyBools(obj) ==
            obj \in DOMAIN r[2] =>
              /\ IsDict(r[2][obj])
              /\ \A f \in DOMAIN r[2][obj][2] : IsBool(r[2][obj][2][f])
          SetTrue(obj, f) ==
            /\ obj \in DOMAIN r[2]
            /\ f \in DOMAIN r[2][obj][2]
            /\ r[2][obj][2][f] = PyBool(TRUE)
      IN (/\ IsDict(r)
          /\ "tapering" \notin DOMAIN r[2]
          /\ {"food", "frequency"} \intersect DOMAIN r[2] # {}
          /\ OnlyBools("food")
          /\ OnlyBools("frequency"))
         => /\ i <= Len(OutMeds)
            /\ \A f \in FoodFlags : OutMeds[i][2].food[2][f] = PyBool(SetTrue("food", f))
            /\ \A f \in FrequencyFlags :
                 OutMeds[i][2].frequency[2][f] = PyBool(SetTrue("frequency", f))

\* C11 (shared numeric coercion), as claimed: for a mapping raw that holds an age
\* (and whose medication is absent or a list), the output age is int(age) when
\* that parse succeeds on a truthy value and 0 otherwise, and the failed or
\* successful coercion of age leaves name as normalized from its own raw value;
\* likewise for a raw medicine line that holds a quantity, the output quantity
\* is int(quantity) or 0 and mrp is float(mrp) or 0.0 as normalized on its own.
C11_NumericCoercionLocal ==
  /\ (/\ PrescriptionDone /\ IsDict(raw) /\ "age" \in DOMAIN raw[2]
      /\ ("medication" \in DOMAIN raw[2] => IsList(raw[2].medication)))
       => /\ out[2].age = (IF Truthy(raw[2].age) /\ ~IsExc(py_int(raw[2].age))
                             THEN py_int(raw[2].age) ELSE PyInt(0))
          /\ out[2].name = str_if_not_none(Get(raw[2], "name", PyStr("")))
  /\ (BillDone /\ HasRawList("medicines") /\ Len(OutLines) = Len(RawLines)) =>
       \A i \in 1..Len(RawLines) :
         (IsDict(RawLines[i]) /\ "quantity" \in DOMAIN RawLines[i][2]) =>
           LET q == RawLines[i][2].quantity
               m == Get(RawLines[i][2], "mrp", PyFloat(0))
           IN /\ OutLines[i][2].quantity =
                   (IF Truthy(q) /\ ~IsExc(py_int(q)) THEN py_int(q) ELSE PyInt(0))
              /\ OutLines[i][2].mrp =
                   (IF Truthy(m) /\ ~IsExc(py_float(m)) THEN py_float(m) ELSE PyFloat(0))

\* C12 (non-negative numerics), as claimed: in every returned record age, the
\* days of every entry and of every tapering step, and the quantity, mrp,
\* buying_price and selling_price of every line are not negative.
C12_NonNegative ==
  /\ (phase # "received" /\ op = "prescription") =>
       /\ IsInt(out[2].age) => out[2].age[2] >= 0
       /\ \A i \in 1..Len(OutMeds) :
            /\ IsInt(OutMeds[i][2].days) => OutMeds[i][2].days[2] >= 0
            /\ IsList(OutMeds[i][2].tapering) =>
                 \A j \in 1..Len(OutMeds[i][2].tapering[2]) :
                   LET d == OutMeds[i][2].tapering[2][j][2].days
                   IN IsInt(d) => d[2] >= 0
  /\ (phase # "received" /\ op = "bill") =>
       \A i \in 1..Len(OutLines) :
         /\ OutLines[i][2].quantity[2] >= 0
         /\ \A k \in {"mrp", "buying_price", "selling_price"} :
              OutLines[i][2][k][1] = "float" => OutLines[i][2][k][2] >= 0

\* The all-defaults PrescriptionRecord: exactly the ten fields, every string "",
\* age 0, no medication, followUp None.
AllDefaultsPrescription(v) ==
  /\ IsDict(v)
  /\ DOMAIN v[2] = TopStrings \union {"age", "medication", "followUp"}
  /\ \A k \in TopStrings : v[2][k] = PyStr("")
  /\ v[2].age = PyInt(0)
  /\ v[2].medication = PyList(<<>>)
  /\ v[2].followUp = PyNone

\* C13 (prescription failure policy): whenever the normalization of a
\* prescription fails as a whole (raw is a list, a primitive, None, ...), the
\* result is the all-defaults record, equal to the result for the empty mapping.
C13_PrescriptionFallback ==
  (PrescriptionDone /\ PrescriptionFellBack) =>
    /\ AllDefaultsPrescription(out)
    /\ out = validate_prescription_data(PyDict(EmptyDict))

\* C13 witness: None has been normalized as a prescription, through the
\* fallback, to the all-defaults record.
C13_Witness ==
  /\ PrescriptionDone
  /\ raw = PyNone
  /\ PrescriptionFellBack
  /\ AllDefaultsPrescription(out)

\* C14 (default-completeness): the empty mapping normalizes to the all-defaults
\* prescription and to a supplier bill whose ten supplier fields and bill_number
\* are "" and whose medicines list is empty; an empty medication entry
\* normalizes to all flags False, days 0, strings "", tapering None, and an
\* empty medicine line to quantity 0, prices 0.0 and strings "".
C14_DefaultCompleteness ==
  /\ (PrescriptionDone /\ raw = PyDict(EmptyDict)) => AllDefaultsPrescription(out)
  /\ (BillDone /\ raw = PyDict(EmptyDict)) =>
       /\ \A k \in SupplierFields : out[2].supplier[2][k] = PyStr("")
       /\ out[2].bill_number = PyStr("")
       /\ OutLines = <<>>
  /\ (PrescriptionDone /\ HasRawList("medication") /\ Len(OutMeds) = Len(RawMeds)) =>
       \A i \in 1..Len(RawMeds) :
         RawMeds[i] = PyDict(EmptyDict) =>
           LET e == OutMeds[i][2]
           IN /\ e.medicine_name = PyStr("") /\ e.dosage = PyStr("")
              /\ e.days = PyInt(0) /\ e.is_sos = PyBool(FALSE)
              /\ IsNone(e.tapering)
              /\ DOMAIN e.food[2] = FoodFlags
              /\ \A f \in FoodFlags : e.food[2][f] = PyBool(FALSE)
              /\ DOMAIN e.frequency[2] = FrequencyFlags
              /\ \A f \in FrequencyFlags : e.frequency[2][f] = PyBool(FALSE)
  /\ (BillDone /\ HasRawList("medicines") /\ Len(OutLines) = Len(RawLines)) =>
       \A i \in 1..Len(RawLines) :
         RawLines[i] = PyDict(EmptyDict) =>
           LET m == OutLines[i][2]
           IN /\ m.quantity = PyInt(0)
              /\ \A k \in {"mrp", "buying_price", "selling_price"} : m[k] = PyFloat(0)
              /\ \A k \in {"medicine_name", "dosage", "expiry_date", "batch_number",
                           "manufacturer"} : m[k] = PyStr("")

\* C14 witness: the empty mapping has been normalized as a supplier bill, and
\* its contact_person_phone is the empty string.
C14_Witness ==
  /\ BillDone
  /\ raw = PyDict(EmptyDict)
  /\ ~BillFellBack
  /\ out[2].supplier[2].contact_person_phone = PyStr("")

\* C17 (uniform string coercion), as claimed: the medicine_name of every raw
\* medication entry and of every raw medicine line, and the bill_number, come out
\* as the raw str unchanged, as str() of any other value that is not None, and
\* as "" only for None.
C17_UniformStringCoercion ==
  /\ (PrescriptionDone /\ HasRawList("medication") /\ Len(OutMeds) = Len(RawMeds)) =>
       \A i \in 1..Len(RawMeds) :
         (/\ IsDict(RawMeds[i])
          /\ DOMAIN RawMeds[i][2] = {"medicine_name"})
           => OutMeds[i][2].medicine_name = str_if_not_none(RawMeds[i][2].medicine_name)
  /\ (BillDone /\ HasRawList("medicines") /\ Len(OutLines) = Len(RawLines)) =>
       \A i \in 1..Len(RawLines) :
         (/\ IsDict(RawLines[i])
          /\ "medicine_name" \in DOMAIN RawLines[i][2]
          /\ "quantity" \notin DOMAIN RawLines[i][2])
           => OutLines[i][2].medicine_name = str_if_not_none(RawLines[i][2].medicine_name)
  /\ (BillDone /\ IsDict(raw) /\ "bill_number" \in DOMAIN raw[2] /\ ~BillFellBack) =>
       out[2].bill_number = str_if_not_none(raw[2].bill_number)

\* C15 (isolation of invocations), as claimed: no list or nested mapping inside
\* a returned record is an object of the canonical defaults or an object of
\* another invocation's result, and the objects of the defaults are never
\* changed through a result.
C15_NoSharedObjects ==
  /\ \A i \in 1..Len(results) : results[i].refs \intersect DefaultObjects = {}
  /\ \A i, j \in 1..Len(results) :
       i # j => results[i].refs \intersect results[j].refs = {}
  /\ \A o \in DefaultObjects : heap[o] = 0

\* Reading a state of the pipeline.
IsPrescriptionRequest == req.operation = "prescription"
IsBillRequest == req.operation = "bill"
Returned == pc = "returned"
HasCall(call, ok) == \E i \in 1..Len(calls) : calls[i].call = call /\ calls[i].ok = ok
Invoked(call) == \E i \in 1..Len(calls) : calls[i].call = call
DecodeFailed == req.data = "not_base64"
UnsupportedType ==
  IF IsPrescriptionRequest
    THEN ~(\/ startswith(req.mimetype, "image")
           \/ req.mimetype = <<"application", "pdf">>
           \/ startswith(req.mimetype, "audio"))
    ELSE ~startswith(req.mimetype, "image")
ParseFailed == IsStr(response) /\ IsExc(json_loads(json_string(response[2])))
StepFailed ==
  \/ DecodeFailed
  \/ UnsupportedType
  \/ HasCall("upload", FALSE)
  \/ HasCall("ai", FALSE)
  \/ ParseFailed
ResultOf(r) == IF r[1] = "ComprehendResponse" THEN r[2].ai_result ELSE r[2].bill_result

\* C16 (upstream failures surfaced): when process_prescription_ai or
\* process_bill_ai has ended, what the caller holds is a response of the
\* operation's response model and not a raised exception; success is true
\* exactly when the result is present and the error absent; if decoding, the
\* MIME check, the upload, the AI call or the JSON parse failed, success is
\* false, there is no result, and the error carries a message, a type and a
\* context mapping.
C16_FailuresSurfaced ==
  Returned =>
    /\ resp[1] = (IF IsPrescriptionRequest THEN "ComprehendResponse" ELSE "BillResponse")
    /\ (resp[2].success = PyBool(TRUE))
         <=> (~IsNone(ResultOf(resp)) /\ IsNone(resp[2].error))
    /\ resp[2].success \in {PyBool(TRUE), PyBool(FALSE)}
    /\ (resp[2].success = PyBool(FALSE)) =>
         /\ IsNone(ResultOf(resp))
         /\ resp[2].error[1] = "ErrorDetails"
         /\ IsStr(resp[2].error[2].message)
         /\ IsStr(resp[2].error[2].type)
         /\ IsDict(resp[2].error[2].context)
    /\ StepFailed => resp[2].success = PyBool(FALSE)

\* C16 witness: a bill request whose AI text was not JSON has ended with a
\* failure response of type JSONDecodeError and no result.
C16_Witness ==
  /\ Returned
  /\ IsBillRequest
  /\ ParseFailed
  /\ resp[1] = "BillResponse"
  /\ resp[2].success = PyBool(FALSE)
  /\ IsNone(resp[2].bill_result)
  /\ resp[2].error[2].type = PyStr("JSONDecodeError")

\* C18 (pipeline ordering): in process_prescription_ai every AI call comes
\* after an upload that returned success; a request with an unsupported MIME
\* type or a failed upload never has the AI model or the normalizer invoked;
\* when the AI call or the JSON parse fails after a successful upload, the
\* error context carries the URL that the upload returned; process_bill_ai
\* never uploads.
C18_PipelineOrder ==
  /\ IsPrescriptionRequest =>
       /\ \A i \in 1..Len(calls) :
            calls[i].call \in {"ai", "normalizer"} =>
              \E j \in 1..(i - 1) : calls[j].call = "upload" /\ calls[j].ok
       /\ (UnsupportedType \/ HasCall("upload", FALSE)) =>
            ~Invoked("ai") /\ ~Invoked("normalizer")
       /\ (Returned /\ HasCall("upload", TRUE) /\ (HasCall("ai", FALSE) \/ ParseFailed)) =>
            /\ resp[1] = "ComprehendResponse"
            /\ resp[2].success = PyBool(FALSE)
            /\ IsStr(resp[2].error[2].context[2].file_url)
            /\ \E j \in 1..Len(calls) :
                 /\ calls[j].call = "upload"
                 /\ calls[j].url = resp[2].error[2].context[2].file_url
  /\ IsBillRequest => ~Invoked("upload")

\* C18 witness: a prescription request whose upload succeeded and whose AI call
\* then raised has ended, and the error context holds the uploaded URL.
C18_Witness ==
  /\ Returned
  /\ IsPrescriptionRequest
  /\ Len(calls) = 2
  /\ calls[1].call = "upload" /\ calls[1].ok
  /\ calls[2].call = "ai" /\ ~calls[2].ok
  /\ resp[2].error[2].context[2].file_url = calls[1].url

====
